---------------------------- MODULE Spec2Model ----------------------------
(***************************************************************************)
(* A model of glotcode/code-runner: the process executor (src/src/cmd.rs), *)
(* the request pipeline (src/src/main.rs) and the language resolver        *)
(* (src/src/language.rs, src/src/non_empty_vec.rs).                        *)
(*                                                                         *)
(* Two specifications share the module:                                    *)
(*   Spec      the program, from start() to process exit; every cmd::run   *)
(*             is one step whose operating-system outcome is an input;     *)
(*   ExecSpec  one call of cmd::execute at the level of pipes and bytes:   *)
(*             the parent's spawn / write_all / wait_with_output and the   *)
(*             child process run as two interleaved processes.             *)
(*                                                                         *)
(* Text is a TLA+ string (TLC evaluates Len, \o and SubSeq on strings);    *)
(* the bytes of a pipe or of a process's output are tuples of 0..255.      *)
(***************************************************************************)
EXTENDS Integers, Sequences, FiniteSets, TLC

VARIABLES
    \* ---- the program (Spec) ----
    pc,          \* position in main/start/run_v1/run_v2/run_by_instructions
    input,       \* what is on the program's stdin: a request, or malformed JSON
    bootstrap,   \* whether /bootstrap.tar.gz exists
    files,       \* run_v1/run_v2's local `files`: the validated File list
    disk,        \* the files written so far, in order
    instr,       \* the RunInstructions in use (Option)
    resolved,    \* how often language::run_instructions has been called
    buildIdx,    \* run_by_instructions' loop position
    calls,       \* every cmd::run of this process so far, in order
    last,        \* the cmd::run just made, if the last step made one: its OS outcome and Result
    result,      \* the RunResult run_v1/run_v2 returned (Option)
    error,       \* the Error start() returned (Option)
    out,         \* what has been written to the program's stdout
    errOut,      \* what has been printed to the program's stderr
    exitCode,    \* the process's exit status (Option)
    \* ---- one cmd::execute call (ExecSpec) ----
    xpc,         \* the parent's position in execute
    xopt,        \* options.stdin
    xenv,        \* what the OS does: spawn/pipe/wait faults, the child's program
    xsent,       \* the bytes write_all has put into the stdin pipe so far
    inPipe,      \* the stdin pipe's buffer
    inOpen,      \* the parent still holds the stdin pipe's write end
    outPipe,     \* the stdout pipe's buffer
    got,         \* the bytes the parent has collected from stdout
    child,       \* the child process
    xlog,        \* what the parent has done so far: spawn, capture, write, wait
    xres         \* execute's return value (Option)

progVars == <<pc, input, bootstrap, files, disk, instr, resolved, buildIdx,
              calls, last, result, error, out, errOut, exitCode>>
execVars == <<xpc, xopt, xenv, xsent, inPipe, inOpen, outPipe, got, child,
              xlog, xres>>
vars == <<progVars, execVars>>

-----------------------------------------------------------------------------
(* Bounds of the model. *)

\* The longest file list of a request.
MaxFiles == 2
\* The longest build_commands list of a pre-resolved (V2) request.
MaxBuild == 2
\* The largest elapsed time (in nanoseconds) a clock reading returns.
MaxDuration == 2
\* The capacity, in bytes, of one OS pipe.
PipeCap == 2
\* The size, in bytes, of the child's read buffer.
ChildBuf == 1
\* The longest stdin text handed to execute.
MaxStdinLen == 8
\* The number of bytes the producer child writes.
GenLen == 5
\* The largest number of other files (files after the main file) of a request
\* handed to the language resolver.
MaxOthers == 2

-----------------------------------------------------------------------------
(* Option values and small helpers. *)

None == [some |-> FALSE]
Some(v) == [some |-> TRUE, val |-> v]

Min(a, b) == IF a < b THEN a ELSE b

\* Whether the text sub occurs in the text s.
Contains(s, sub) ==
    \E i \in 1..(Len(s) - Len(sub) + 1) : SubSeq(s, i, i + Len(sub) - 1) = sub

\* String::is_empty
is_empty(s) == Len(s) = 0

\* [String]::join
RECURSIVE join(_, _)
join(parts, sep) ==
    IF parts = <<>> THEN ""
    ELSE IF Len(parts) = 1 THEN parts[1]
    ELSE parts[1] \o sep \o join(Tail(parts), sep)

-----------------------------------------------------------------------------
(* UTF-8: String::from_utf8 as cmd::get_output uses it. *)

IsCont(b) == b >= 128 /\ b <= 191

\* The second byte a lead byte admits (the well-formed UTF-8 table).
SecondOk(b0, b1) ==
    CASE b0 = 224 -> b1 >= 160 /\ b1 <= 191
      [] b0 = 237 -> b1 >= 128 /\ b1 <= 159
      [] b0 = 240 -> b1 >= 144 /\ b1 <= 191
      [] b0 = 244 -> b1 >= 128 /\ b1 <= 143
      [] OTHER -> IsCont(b1)

\* The width of the sequence a lead byte starts; 0 for a byte that starts none.
Utf8Width(b0) ==
    CASE b0 <= 127 -> 1
      [] b0 >= 194 /\ b0 <= 223 -> 2
      [] b0 >= 224 /\ b0 <= 239 -> 3
      [] b0 >= 240 /\ b0 <= 244 -> 4
      [] OTHER -> 0

\* The scalar value of the well-formed sequence b[1..w].
CodePoint(b, w) ==
    CASE w = 1 -> b[1]
      [] w = 2 -> (b[1] - 192) * 64 + (b[2] - 128)
      [] w = 3 -> (b[1] - 224) * 4096 + (b[2] - 128) * 64 + (b[3] - 128)
      [] OTHER -> (b[1] - 240) * 262144 + (b[2] - 128) * 4096
                    + (b[3] - 128) * 64 + (b[4] - 128)

\* The character of a scalar value (the ones the model's outputs can hold; the
\* non-ASCII one is U+FFE9, which TLC stores in a state unchanged).
Chr(cp) ==
    CASE cp = 10 -> "\n"
      [] cp = 53 -> "5"
      [] cp = 101 -> "e"
      [] cp = 107 -> "k"
      [] cp = 111 -> "o"
      [] cp = 65513 -> "￩"
      [] OTHER -> "?"

\* Whether b starts with a well-formed sequence of width w.
WellFormedAt(b, w) ==
    /\ w >= 1
    /\ Len(b) >= w
    /\ (w >= 2 => SecondOk(b[1], b[2]))
    /\ (w >= 3 => IsCont(b[3]))
    /\ (w >= 4 => IsCont(b[4]))

\* String::from_utf8: the text of the bytes, or the FromUtf8Error (the index
\* up to which the bytes are valid).
RECURSIVE from_utf8_at(_, _)
from_utf8_at(b, index) ==
    IF b = <<>> THEN [ok |-> TRUE, text |-> "", valid_up_to |-> index]
    ELSE LET w == Utf8Width(b[1]) IN
         IF ~WellFormedAt(b, w)
         THEN [ok |-> FALSE, text |-> "", valid_up_to |-> index]
         ELSE LET rest == from_utf8_at(SubSeq(b, w + 1, Len(b)), index + w) IN
              IF rest.ok
              THEN [ok |-> TRUE, text |-> Chr(CodePoint(b, w)) \o rest.text,
                    valid_up_to |-> rest.valid_up_to]
              ELSE rest

\* The decoding a lossy conversion would give (String::from_utf8_lossy).
RECURSIVE from_utf8_lossy_at(_, _)
from_utf8_lossy_at(b, index) ==
    IF b = <<>> THEN [ok |-> TRUE, text |-> "", valid_up_to |-> index]
    ELSE LET w == Utf8Width(b[1]) IN
         IF ~WellFormedAt(b, w)
         THEN LET rest == from_utf8_lossy_at(Tail(b), index + 1) IN
              [ok |-> TRUE, text |-> "?" \o rest.text,
               valid_up_to |-> rest.valid_up_to]
         ELSE LET rest == from_utf8_lossy_at(SubSeq(b, w + 1, Len(b)), index + w) IN
              [ok |-> TRUE, text |-> Chr(CodePoint(b, w)) \o rest.text,
               valid_up_to |-> rest.valid_up_to]

from_utf8_lossy(b) == from_utf8_lossy_at(b, 0)

from_utf8(b) == from_utf8_at(b, 0)

\* FromUtf8Error's Display.
Utf8ErrorText(e) == "invalid utf-8 sequence from index " \o ToString(e.valid_up_to)

-----------------------------------------------------------------------------
(* src/src/cmd.rs *)

Ok(v) == [ok |-> TRUE, val |-> v]
Err(e) == [ok |-> FALSE, err |-> e]

\* impl fmt::Display for ExecuteError
ExecuteError_fmt(e) ==
    CASE e.tag = "Execute" -> e.io
      [] e.tag = "CaptureStdin" -> "Failed to capture stdin."
      [] e.tag = "WriteStdin" -> "Failed to write to stdin. " \o e.io
      [] OTHER -> "Failed while waiting for child. " \o e.io

\* ErrorOutput::fmt's `messages` after the three pushes.
ErrorOutput_messages(o) ==
    (IF o.exit_code.some THEN <<"code: " \o ToString(o.exit_code.val)>> ELSE <<>>)
    \o (IF ~is_empty(o.stdout) THEN <<"stdout: " \o o.stdout>> ELSE <<>>)
    \o (IF ~is_empty(o.stderr) THEN <<"stderr: " \o o.stderr>> ELSE <<>>)

\* ErrorOutput::fmt with stdout and stderr pushed in the other order.
ErrorOutput_fmt_swapped(o) ==
    join((IF o.exit_code.some THEN <<"code: " \o ToString(o.exit_code.val)>> ELSE <<>>)
         \o (IF ~is_empty(o.stderr) THEN <<"stderr: " \o o.stderr>> ELSE <<>>)
         \o (IF ~is_empty(o.stdout) THEN <<"stdout: " \o o.stdout>> ELSE <<>>),
         ", ")

\* impl fmt::Display for ErrorOutput
ErrorOutput_fmt(o) == join(ErrorOutput_messages(o), ", ")

\* impl fmt::Display for OutputError
OutputError_fmt(e) ==
    CASE e.tag = "ExitFailure" ->
            "Exited with non-zero exit code. " \o ErrorOutput_fmt(e.output)
      [] e.tag = "ReadStdout" -> "Failed to read stdout. " \o Utf8ErrorText(e.utf8)
      [] OTHER -> "Failed to read stderr. " \o Utf8ErrorText(e.utf8)

\* impl fmt::Display for cmd::Error
CmdError_fmt(e) ==
    IF e.tag = "Execute"
    THEN "Error while executing command. " \o ExecuteError_fmt(e.err)
    ELSE "Error in output from command. " \o OutputError_fmt(e.err)

\* cmd::Error::duration
CmdError_duration(e) == e.duration

\* get_output with both streams decoded lossily.
get_output_lossy(output, duration) ==
    LET stdout == from_utf8_lossy(output.stdout)
        stderr == from_utf8_lossy(output.stderr)
    IN  IF output.status.success
        THEN Ok([stdout |-> stdout.text, stderr |-> stderr.text,
                 duration |-> duration])
        ELSE Err([tag |-> "ExitFailure",
                  output |-> [stdout |-> stdout.text, stderr |-> stderr.text,
                              exit_code |-> output.status.code]])

\* get_output with stderr decoded before stdout.
get_output_stderr_first(output, duration) ==
    LET stdout == from_utf8(output.stdout)
        stderr == from_utf8(output.stderr)
    IN  IF ~stderr.ok THEN Err([tag |-> "ReadStderr", utf8 |-> stderr])
        ELSE IF ~stdout.ok THEN Err([tag |-> "ReadStdout", utf8 |-> stdout])
        ELSE IF output.status.success
        THEN Ok([stdout |-> stdout.text, stderr |-> stderr.text,
                 duration |-> duration])
        ELSE Err([tag |-> "ExitFailure",
                  output |-> [stdout |-> stdout.text, stderr |-> stderr.text,
                              exit_code |-> output.status.code]])

\* cmd::get_output
get_output(output, duration) ==
    IF output.status.success
    THEN LET stdout == from_utf8(output.stdout) IN
         IF ~stdout.ok THEN Err([tag |-> "ReadStdout", utf8 |-> stdout])
         ELSE LET stderr == from_utf8(output.stderr) IN
              IF ~stderr.ok THEN Err([tag |-> "ReadStderr", utf8 |-> stderr])
              ELSE Ok([stdout |-> stdout.text, stderr |-> stderr.text,
                       duration |-> duration])
    ELSE LET stdout == from_utf8(output.stdout) IN
         IF ~stdout.ok THEN Err([tag |-> "ReadStdout", utf8 |-> stdout])
         ELSE LET stderr == from_utf8(output.stderr) IN
              IF ~stderr.ok THEN Err([tag |-> "ReadStderr", utf8 |-> stderr])
              ELSE Err([tag |-> "ExitFailure",
                        output |-> [stdout |-> stdout.text,
                                    stderr |-> stderr.text,
                                    exit_code |-> output.status.code]])

\* cmd::run, given what the operating system does with the call: os.exec is
\* execute's return value, os.t1 and os.t2 the first and second reading of
\* now.elapsed().
run(options, os) ==
    IF ~os.exec.ok
    THEN Err([tag |-> "Execute", err |-> os.exec.err, duration |-> os.t1])
    ELSE LET r == get_output(os.exec.val, os.t1) IN
         IF r.ok THEN r
         ELSE Err([tag |-> "Output", err |-> r.err, duration |-> os.t2])

-----------------------------------------------------------------------------
(* src/src/main.rs: results and errors *)

\* to_success_result
to_success_result(output) ==
    [stdout |-> output.stdout, stderr |-> output.stderr, error |-> "",
     duration |-> output.duration]

\* to_error_result
to_error_result(e) ==
    IF e.tag = "Output" /\ e.err.tag = "ExitFailure"
    THEN [stdout |-> e.err.output.stdout,
          stderr |-> e.err.output.stderr,
          error |-> IF e.err.output.exit_code.some
                    THEN "Exit code: " \o ToString(e.err.output.exit_code.val)
                    ELSE "",
          duration |-> e.duration]
    ELSE [stdout |-> "", stderr |-> "", error |-> CmdError_fmt(e),
          duration |-> CmdError_duration(e)]

\* impl fmt::Display for Error
Error_fmt(e) ==
    CASE e.tag = "ParseRequest" -> "Failed to parse request json, " \o e.msg
      [] e.tag = "NoFiles" -> "Error, no files were given"
      [] e.tag = "StripWorkPath" -> "Failed to strip work path of file. " \o e.msg
      [] e.tag = "EmptyFileName" -> "Error, file with empty name"
      [] e.tag = "EmptyFileContent" -> "Error, file with empty content"
      [] e.tag = "GetTimestamp" ->
            "Failed to get timestamp for work directory, " \o e.msg
      [] e.tag = "GetParentDir" ->
            "Failed to get parent dir for file: '" \o e.path \o "'"
      [] e.tag = "CreateParentDir" ->
            "Failed to create parent dir for file '" \o e.path \o "'. " \o e.msg
      [] e.tag = "WriteFile" ->
            "Failed to write file: '" \o e.path \o "'. " \o e.msg
      [] e.tag = "Bootstrap" ->
            "Failed to unpack bootstrap file: " \o CmdError_fmt(e.err)
      [] e.tag = "Compile" -> "Failed to compile: " \o CmdError_fmt(e.err)
      [] OTHER -> "Failed to serialize run result: " \o e.msg

-----------------------------------------------------------------------------
(* src/src/non_empty_vec.rs *)

\* from_vec taking the last element for the head (vec.pop() for vec.remove(0)).
from_vec_last_as_head(vec) ==
    IF vec = <<>> THEN None
    ELSE Some([head |-> vec[Len(vec)], tail |-> SubSeq(vec, 1, Len(vec) - 1)])

\* non_empty_vec::from_vec
from_vec(vec) ==
    IF vec = <<>> THEN None
    ELSE Some([head |-> Head(vec), tail |-> Tail(vec)])

\* NonEmptyVec::parts taking the first of the other files for the main file.
parts_second_as_main(nev) ==
    IF nev.tail = <<>> THEN <<nev.head, nev.tail>>
    ELSE <<Head(nev.tail), <<nev.head>> \o Tail(nev.tail)>>

\* NonEmptyVec::parts
parts(nev) == <<nev.head, nev.tail>>

-----------------------------------------------------------------------------
(* std::path as src/src/language.rs uses it *)

\* The last index of the character ch in s, or 0.
RECURSIVE LastIndexOf(_, _)
LastIndexOf(s, ch) ==
    IF Len(s) = 0 THEN 0
    ELSE IF SubSeq(s, Len(s), Len(s)) = ch THEN Len(s)
    ELSE LastIndexOf(SubSeq(s, 1, Len(s) - 1), ch)

\* Path::file_name: the last component (Option).
file_name(path) ==
    LET name == SubSeq(path, LastIndexOf(path, "/") + 1, Len(path)) IN
    IF name = "" \/ name = ".." THEN None ELSE Some(name)

\* Path::extension
extension(path) ==
    LET n == file_name(path) IN
    IF ~n.some THEN None
    ELSE LET i == LastIndexOf(n.val, ".") IN
         IF i <= 1 THEN None ELSE Some(SubSeq(n.val, i + 1, Len(n.val)))

\* Path::file_stem
file_stem(path) ==
    LET n == file_name(path) IN
    IF ~n.some THEN None
    ELSE LET i == LastIndexOf(n.val, ".") IN
         IF i <= 1 THEN n ELSE Some(SubSeq(n.val, 1, i - 1))

-----------------------------------------------------------------------------
(* src/src/language.rs *)

Language ==
    {"Assembly", "Ats", "Bash", "C", "Clisp", "Clojure", "Cobol", "CoffeeScript",
     "Cpp", "Crystal", "Csharp", "D", "Dart", "Elixir", "Elm", "Erlang", "Fsharp",
     "Go", "Groovy", "Guile", "Hare", "Haskell", "Idris", "Java", "JavaScript",
     "Julia", "Kotlin", "Lua", "Mercury", "Nim", "Nix", "Ocaml", "Pascal", "Perl",
     "Php", "Python", "Raku", "Ruby", "Rust", "SaC", "Scala", "Swift",
     "TypeScript", "Zig"}

RunInstructions(build, runc) == [build_commands |-> build, run_command |-> runc]

\* Vec::reverse left out: the files stay in their order.
reverse_left_out(v) == v

\* Vec::reverse
RECURSIVE reverse(_)
reverse(v) == IF v = <<>> THEN <<>> ELSE Append(reverse(Tail(v)), Head(v))

\* filter_by_extension keeping every file that has an extension at all.
filter_by_any_extension(fs, ext) == SelectSeq(fs, LAMBDA f : extension(f).some)

\* filter_by_extension
RECURSIVE filter_by_extension(_, _)
filter_by_extension(fs, ext) ==
    IF fs = <<>> THEN <<>>
    ELSE IF extension(Head(fs)) = Some(ext)
         THEN <<Head(fs)>> \o filter_by_extension(Tail(fs), ext)
         ELSE filter_by_extension(Tail(fs), ext)

\* space_separated_files
space_separated_files(fs) == join(fs, " ")

\* source_files
source_files(fs, ext) == space_separated_files(filter_by_extension(fs, ext))

\* u8::to_ascii_uppercase on a one-character text.
to_ascii_uppercase(c) ==
    LET lower == "abcdefghijklmnopqrstuvwxyz"
        upper == "ABCDEFGHIJKLMNOPQRSTUVWXYZ"
    IN  IF \E i \in 1..26 : SubSeq(lower, i, i) = c
        THEN LET i == CHOOSE i \in 1..26 : SubSeq(lower, i, i) = c
             IN  SubSeq(upper, i, i)
        ELSE c

\* The characters of the model's texts that are ASCII.
AsciiChars ==
    "abcdefghijklmnopqrstuvwxyzABCDEFGHIJKLMNOPQRSTUVWXYZ0123456789 ._-/:,'\n"

\* str::is_ascii
is_ascii(s) ==
    \A i \in 1..Len(s) :
        \E j \in 1..Len(AsciiChars) : SubSeq(AsciiChars, j, j) = SubSeq(s, i, i)

\* str::len: the length in bytes (the model's non-ASCII character takes three).
byte_len(s) ==
    Len(s) + 2 * Cardinality({i \in 1..Len(s) : ~is_ascii(SubSeq(s, i, i))})

\* titlecase_ascii without the length test.
titlecase_ascii_any_length(s) ==
    IF ~is_ascii(s) \/ byte_len(s) < 1 THEN s
    ELSE to_ascii_uppercase(SubSeq(s, 1, 1)) \o SubSeq(s, 2, Len(s))

\* titlecase_ascii
titlecase_ascii(s) ==
    IF ~is_ascii(s) \/ byte_len(s) < 2 THEN s
    ELSE to_ascii_uppercase(SubSeq(s, 1, 1)) \o SubSeq(s, 2, Len(s))

\* The `file_stem ... unwrap_or("Main")` of the Java and Kotlin arms.
StemOrMain(path) == IF file_stem(path).some THEN file_stem(path).val ELSE "Main"

\* language::run_instructions
run_instructions(language, nev) ==
    LET main_file == parts(nev)[1]
        other_files == parts(nev)[2]
        main_file_str == main_file
    IN
    CASE language = "Assembly" ->
            RunInstructions(<<"nasm -f elf64 -o a.o " \o main_file_str,
                              "ld -o a.out a.o">>, "./a.out")
      [] language = "Ats" ->
            RunInstructions(<<"patscc -o a.out " \o main_file_str \o " "
                              \o source_files(other_files, "dats")>>, "./a.out")
      [] language = "Bash" -> RunInstructions(<<>>, "bash " \o main_file_str)
      [] language = "C" ->
            RunInstructions(<<"clang -o a.out -lm " \o main_file_str \o " "
                              \o source_files(other_files, "c")>>, "./a.out")
      [] language = "Clisp" ->
            RunInstructions(<<>>, "sbcl --noinform --non-interactive --load "
                                  \o main_file_str)
      [] language = "Clojure" -> RunInstructions(<<>>, "clj -M " \o main_file_str)
      [] language = "Cobol" ->
            RunInstructions(<<"cobc -x -o a.out " \o main_file_str \o " "
                              \o source_files(other_files, "cob")>>, "./a.out")
      [] language = "CoffeeScript" ->
            RunInstructions(<<>>, "coffee " \o main_file_str)
      [] language = "Cpp" ->
            RunInstructions(<<"clang++ -std=c++11 -o a.out " \o main_file_str \o " "
                              \o source_files(other_files, "c")>>, "./a.out")
      [] language = "Crystal" ->
            RunInstructions(<<>>, "crystal run " \o main_file_str)
      [] language = "Csharp" ->
            RunInstructions(<<"mcs -out:a.exe " \o main_file_str \o " "
                              \o source_files(other_files, "cs")>>, "mono a.exe")
      [] language = "D" ->
            RunInstructions(<<"dmd -ofa.out " \o main_file_str \o " "
                              \o source_files(other_files, "d")>>, "./a.out")
      [] language = "Dart" -> RunInstructions(<<>>, "dart " \o main_file_str)
      [] language = "Elixir" ->
            RunInstructions(<<>>, "elixirc " \o main_file_str \o " "
                                  \o source_files(other_files, "ex"))
      [] language = "Elm" ->
            RunInstructions(<<"elm make --output a.js " \o main_file_str>>,
                            "elm-runner a.js")
      [] language = "Erlang" ->
            RunInstructions(
                [i \in 1..Len(filter_by_extension(other_files, "erl")) |->
                    "erlc " \o filter_by_extension(other_files, "erl")[i]],
                "escript " \o main_file_str)
      [] language = "Fsharp" ->
            RunInstructions(
                <<"fsharpc --out:a.exe "
                  \o space_separated_files(
                        reverse(filter_by_extension(other_files, "fs")))
                  \o " " \o main_file_str>>, "mono a.exe")
      [] language = "Go" ->
            RunInstructions(<<"go build -o a.out " \o main_file_str>>, "./a.out")
      [] language = "Groovy" -> RunInstructions(<<>>, "groovy " \o main_file_str)
      [] language = "Guile" ->
            RunInstructions(<<>>,
                "guile --no-debug --fresh-auto-compile --no-auto-compile -s "
                \o main_file_str)
      [] language = "Hare" ->
            RunInstructions(<<"hare build -o a.out " \o main_file_str>>, "./a.out")
      [] language = "Haskell" -> RunInstructions(<<>>, "runghc " \o main_file_str)
      [] language = "Idris" ->
            RunInstructions(<<"idris2 -o a.out --output-dir . " \o main_file_str>>,
                            "./a.out")
      [] language = "Java" ->
            RunInstructions(<<"javac " \o main_file_str>>,
                            "java " \o titlecase_ascii(StemOrMain(main_file)))
      [] language = "JavaScript" -> RunInstructions(<<>>, "node " \o main_file_str)
      [] language = "Julia" -> RunInstructions(<<>>, "julia " \o main_file_str)
      [] language = "Kotlin" ->
            RunInstructions(<<"kotlinc " \o main_file_str>>,
                            "kotlin " \o titlecase_ascii(StemOrMain(main_file))
                            \o "Kt")
      [] language = "Lua" -> RunInstructions(<<>>, "lua " \o main_file_str)
      [] language = "Mercury" ->
            RunInstructions(<<"mmc -o a.out " \o main_file_str \o " "
                              \o source_files(other_files, "m")>>, "./a.out")
      [] language = "Nim" ->
            RunInstructions(<<>>, "nim --hints:off --verbosity:0 compile --run "
                                  \o main_file_str)
      [] language = "Nix" ->
            RunInstructions(<<>>, "nix-instantiate --eval " \o main_file_str)
      [] language = "Ocaml" ->
            RunInstructions(
                <<"ocamlc -o a.out "
                  \o space_separated_files(
                        reverse(filter_by_extension(other_files, "ml")))
                  \o " " \o main_file_str>>, "./a.out")
      [] language = "Pascal" ->
            RunInstructions(<<"fpc -oa.out " \o main_file_str>>, "./a.out")
      [] language = "Perl" -> RunInstructions(<<>>, "perl " \o main_file_str)
      [] language = "Php" -> RunInstructions(<<>>, "php " \o main_file_str)
      [] language = "Python" -> RunInstructions(<<>>, "python " \o main_file_str)
      [] language = "Raku" -> RunInstructions(<<>>, "raku " \o main_file_str)
      [] language = "Ruby" -> RunInstructions(<<>>, "ruby " \o main_file_str)
      [] language = "Rust" ->
            RunInstructions(<<"rustc -o a.out " \o main_file_str>>, "./a.out")
      [] language = "SaC" ->
            RunInstructions(<<"sac2c -t seq -o a.out " \o main_file_str \o " "
                              \o source_files(other_files, "c")>>, "./a.out")
      [] language = "Scala" ->
            RunInstructions(<<"scalac " \o main_file_str \o " "
                              \o source_files(other_files, "scala")>>,
                            "scala Main")
      [] language = "Swift" ->
            RunInstructions(<<"swiftc -o a.out " \o main_file_str \o " "
                              \o source_files(other_files, "swift")>>, "./a.out")
      [] language = "TypeScript" ->
            RunInstructions(<<"tsc -outFile a.js " \o main_file_str \o " "
                              \o source_files(other_files, "ts")>>, "node a.js")
      [] OTHER ->
            RunInstructions(<<>>, "zig run " \o main_file_str)

-----------------------------------------------------------------------------
(* src/src/main.rs: the inputs of one run of the program *)

\* The work directory (work_path_from_args or default_work_path).
work_path == "/tmp/glot-1"

\* The text of an io::Error, serde_json::Error or SystemTimeError.
IoMsg == "os error"

\* Every sequence over S of length at most n.
SeqsUpTo(S, n) == UNION {[1..k -> S] : k \in 0..n}

\* The file entries of a request: two good ones, one with an empty content and
\* one with an empty name and an empty content.
RequestFiles ==
    {[name |-> "main.c", content |-> "x"], [name |-> "b.erl", content |-> "y"],
     [name |-> "main.c", content |-> ""], [name |-> "", content |-> ""]}

StdinTexts == {None, Some("5\n")}
Commands == {None, Some(""), Some("cat")}
ReqLanguages == {"C", "Erlang"}

\* build_commands of a pre-resolved request: <<"build1", ..., "buildn">>.
BuildList(n) == [i \in 1..n |-> "build" \o ToString(i)]

RunRequestV1 ==
    [form : {"V1"}, language : ReqLanguages, files : SeqsUpTo(RequestFiles, MaxFiles),
     stdin : StdinTexts, command : Commands]

RunRequestV2 ==
    [form : {"V2"},
     run_instructions : {RunInstructions(BuildList(n), "run") : n \in 0..MaxBuild},
     files : SeqsUpTo(RequestFiles, MaxFiles), stdin : StdinTexts]

\* What the program can find on its stdin.
Inputs == {[form |-> "malformed"]} \cup RunRequestV1 \cup RunRequestV2

\* What a child process can leave behind: its exit status and its streams.
Statuses ==
    {[success |-> TRUE, code |-> Some(0)], [success |-> FALSE, code |-> Some(2)],
     [success |-> FALSE, code |-> None]}
StdoutBytes == {<<>>, <<111, 107>>, <<111, 255>>}
StderrBytes == {<<>>, <<239, 191, 169>>, <<195>>}
Outputs == [status : Statuses, stdout : StdoutBytes, stderr : StderrBytes]

\* What execute can return for a call with this stdin (Result<Output, ExecuteError>).
ExecuteResults(stdin) ==
    {Err([tag |-> "Execute", io |-> IoMsg]), Err([tag |-> "WaitForChild", io |-> IoMsg])}
    \cup (IF stdin.some
          THEN {Err([tag |-> "CaptureStdin"]), Err([tag |-> "WriteStdin", io |-> IoMsg])}
          ELSE {})
    \cup {Ok(o) : o \in Outputs}

\* What the operating system does with one cmd::run: execute's return value and
\* the readings of now.elapsed() that run takes (the second one only when
\* get_output fails).
OsOutcomes(stdin) ==
    {os \in [exec : ExecuteResults(stdin), t1 : 1..MaxDuration, t2 : 1..MaxDuration] :
        IF os.exec.ok /\ ~get_output(os.exec.val, os.t1).ok
        THEN os.t2 >= os.t1
        ELSE os.t2 = os.t1}

\* The same for the bootstrap's `tar -zxf`, which writes nothing to its stdout.
TarOutcomes == {os \in OsOutcomes(None) : os.exec.ok => os.exec.val.stdout = <<>>}

-----------------------------------------------------------------------------
(* src/src/main.rs: functions *)

\* err_if_false
err_if_false(value, err) == IF value THEN Ok(TRUE) ELSE Err(err)

\* Path::join
path_join(base, name) ==
    IF Len(name) > 0 /\ SubSeq(name, 1, 1) = "/" THEN name ELSE base \o "/" \o name

\* Path::strip_prefix
strip_prefix(path, base) ==
    IF Len(path) > Len(base) + 1 /\ SubSeq(path, 1, Len(base) + 1) = base \o "/"
    THEN Ok(SubSeq(path, Len(base) + 2, Len(path)))
    ELSE IF path = base THEN Ok("") ELSE Err([tag |-> "StripWorkPath", msg |-> "prefix not found"])

\* file_from_request_file
file_from_request_file(base_path, file) ==
    IF ~err_if_false(~is_empty(file.name), [tag |-> "EmptyFileName"]).ok
    THEN Err([tag |-> "EmptyFileName"])
    ELSE IF ~err_if_false(~is_empty(file.content), [tag |-> "EmptyFileContent"]).ok
    THEN Err([tag |-> "EmptyFileContent"])
    ELSE Ok([path |-> path_join(base_path, file.name), content |-> file.content])

\* `.map(|file| file_from_request_file(work_path, file)).collect::<Result<Vec<_>, _>>()`:
\* the files, or the error of the first entry that has one.
RECURSIVE collect_files(_, _)
collect_files(base_path, reqFiles) ==
    IF reqFiles = <<>> THEN Ok(<<>>)
    ELSE LET f == file_from_request_file(base_path, Head(reqFiles)) IN
         IF ~f.ok THEN f
         ELSE LET rest == collect_files(base_path, Tail(reqFiles)) IN
              IF ~rest.ok THEN rest ELSE Ok(<<f.val>> \o rest.val)

\* get_relative_file_paths
RECURSIVE strip_all(_, _)
strip_all(base_path, fs) ==
    IF fs = <<>> THEN Ok(<<>>)
    ELSE LET p == strip_prefix(Head(fs).path, base_path) IN
         IF ~p.ok THEN p
         ELSE LET rest == strip_all(base_path, Tail(fs)) IN
              IF ~rest.ok THEN rest ELSE Ok(<<p.val>> \o rest.val)

\* get_relative_file_paths without strip_prefix: the paths stay absolute.
get_absolute_file_paths(base_path, fs) ==
    IF fs = <<>> THEN Err([tag |-> "NoFiles"])
    ELSE Ok([head |-> fs[1].path, tail |-> [i \in 1..(Len(fs) - 1) |-> fs[i + 1].path]])

get_relative_file_paths(base_path, fs) ==
    LET names == strip_all(base_path, fs) IN
    IF ~names.ok THEN names
    ELSE IF from_vec(names.val).some THEN Ok(from_vec(names.val).val)
    ELSE Err([tag |-> "NoFiles"])

\* compile
compile(command, os) ==
    LET r == run([command |-> command, stdin |-> None], os) IN
    IF r.ok THEN r ELSE Err([tag |-> "Compile", err |-> r.err])

\* run_command
run_command(command, stdin, os) ==
    LET r == run([command |-> command, stdin |-> stdin], os) IN
    IF r.ok THEN to_success_result(r.val) ELSE to_error_result(r.err)

\* run_by_instructions from build command i on, given the OS outcomes of the
\* calls it makes, in order: the calls made and the value returned.
RECURSIVE run_by_instructions_from(_, _, _, _)
run_by_instructions_from(i, run_instr, stdin, oss) ==
    IF i <= Len(run_instr.build_commands)
    THEN LET c == compile(run_instr.build_commands[i], Head(oss)) IN
         IF ~c.ok
         THEN [calls |-> <<[command |-> run_instr.build_commands[i], stdin |-> None]>>,
               ret |-> c]
         ELSE LET rest == run_by_instructions_from(i + 1, run_instr, stdin, Tail(oss)) IN
              [calls |-> <<[command |-> run_instr.build_commands[i], stdin |-> None]>>
                         \o rest.calls,
               ret |-> rest.ret]
    ELSE [calls |-> <<[command |-> run_instr.run_command, stdin |-> stdin]>>,
          ret |-> Ok(run_command(run_instr.run_command, stdin, Head(oss)))]

\* run_by_instructions
run_by_instructions(run_instr, stdin, oss) ==
    run_by_instructions_from(1, run_instr, stdin, oss)

-----------------------------------------------------------------------------
(* The program: main, start, run_v1, run_v2, run_by_instructions. *)

\* The pipe-level variables while no ExecSpec run is modelled.
ExecIdle ==
    /\ xpc = "idle"
    /\ xopt = None
    /\ xenv = [spawnOk |-> TRUE, stdinPipe |-> TRUE, waitOk |-> TRUE, prog |-> "true"]
    /\ xsent = <<>>
    /\ inPipe = <<>>
    /\ inOpen = FALSE
    /\ outPipe = <<>>
    /\ got = <<>>
    /\ child = [pc |-> "none", buf |-> <<>>, eof |-> FALSE, left |-> 0]
    /\ xlog = <<>>
    /\ xres = None

Init ==
    /\ pc = "parse_request"
    /\ input \in Inputs
    /\ bootstrap \in BOOLEAN
    /\ files = <<>>
    /\ disk = <<>>
    /\ instr = None
    /\ resolved = 0
    /\ buildIdx = 1
    /\ calls = <<>>
    /\ last = None
    /\ result = None
    /\ error = None
    /\ out = <<>>
    /\ errOut = <<>>
    /\ exitCode = None
    /\ ExecIdle

\* `?` in start: the error goes to main's handle_error.
Fail(e) ==
    /\ error' = Some(e)
    /\ pc' = "handle_error"

\* One cmd::run by this process: the call is logged and its outcome kept.
Call(role, command, stdin, os) ==
    /\ calls' = Append(calls, [role |-> role, command |-> command, stdin |-> stdin,
                               ok |-> run([command |-> command, stdin |-> stdin], os).ok])
    /\ last' = Some([os |-> os, role |-> role,
                     res |-> run([command |-> command, stdin |-> stdin], os)])

\* start: parse_request(stdin)?
ParseRequest ==
    /\ pc = "parse_request"
    /\ IF input.form = "malformed"
       THEN Fail([tag |-> "ParseRequest", msg |-> IoMsg])
       ELSE pc' = "work_path" /\ UNCHANGED error
    /\ UNCHANGED <<input, bootstrap, files, disk, instr, resolved, buildIdx, calls,
                   result, out, errOut, exitCode, execVars>>
    /\ last' = None

\* start: work_path_from_args(args), or default_work_path()?
WorkPath ==
    /\ pc = "work_path"
    /\ \E how \in {"args", "default", "clock_error"} :
          IF how = "clock_error"
          THEN Fail([tag |-> "GetTimestamp", msg |-> IoMsg])
          ELSE pc' = "bootstrap" /\ UNCHANGED error
    /\ UNCHANGED <<input, bootstrap, files, disk, instr, resolved, buildIdx, calls,
                   result, out, errOut, exitCode, execVars>>
    /\ last' = None

\* start: `if bootstrap_file.exists() { unpack_bootstrap_file(..)? }`
Bootstrap ==
    /\ pc = "bootstrap"
    /\ IF ~bootstrap
       THEN pc' = "run_request" /\ UNCHANGED <<error, calls, last>>
       ELSE \E os \in TarOutcomes :
               LET command == "tar -zxf /bootstrap.tar.gz"
                   r == run([command |-> command, stdin |-> None], os)
               IN  /\ Call("bootstrap", command, None, os)
                   /\ IF r.ok
                      THEN pc' = "run_request" /\ UNCHANGED error
                      ELSE Fail([tag |-> "Bootstrap", err |-> r.err])
    /\ UNCHANGED <<input, bootstrap, files, disk, instr, resolved, buildIdx,
                   result, out, errOut, exitCode, execVars>>

\* run_v1 / run_v2 with the check of an entry done when its turn to be written
\* comes: the entries before a bad one are on disk by then.
ValidateFilesLazily ==
    /\ pc = "run_request"
    /\ \E k \in 0..Len(input.files) :
          /\ \A i \in 1..k : file_from_request_file(work_path, input.files[i]).ok
          /\ disk' = [i \in 1..k |-> file_from_request_file(work_path, input.files[i]).val]
          /\ IF k = Len(input.files)
             THEN files' = disk' /\ pc' = "write_files" /\ UNCHANGED error
             ELSE /\ ~file_from_request_file(work_path, input.files[k + 1]).ok
                  /\ Fail(file_from_request_file(work_path, input.files[k + 1]).err)
                  /\ UNCHANGED files
    /\ UNCHANGED <<input, bootstrap, instr, resolved, buildIdx, calls, result, out, errOut, exitCode, execVars>>
    /\ last' = None

\* run_v1 / run_v2: every file entry is checked, and only then is one written.
ValidateFiles ==
    /\ pc = "run_request"
    /\ LET r == collect_files(work_path, input.files) IN
       IF r.ok
       THEN files' = r.val /\ pc' = "write_files" /\ UNCHANGED error
       ELSE Fail(r.err) /\ UNCHANGED files
    /\ UNCHANGED <<input, bootstrap, disk, instr, resolved, buildIdx, calls, result, out, errOut, exitCode, execVars>>
    /\ last' = None

\* Path::parent of a file's path (None for the root and the empty path).
parent(path) ==
    IF path = "" \/ path = "/" THEN None
    ELSE Some(SubSeq(path, 1, LastIndexOf(path, "/") - 1))

\* run_v1 / run_v2: one turn of `for file in &files { write_file(file)?; }`
WriteFile ==
    /\ pc = "write_files"
    /\ Len(disk) < Len(files)
    /\ LET file == files[Len(disk) + 1] IN
       IF ~parent(file.path).some
       THEN Fail([tag |-> "GetParentDir", path |-> file.path]) /\ UNCHANGED disk
       ELSE \E fs \in {"ok", "create_dir_all fails", "write fails"} :
               CASE fs = "ok" ->
                       disk' = Append(disk, file) /\ UNCHANGED <<pc, error>>
                 [] fs = "create_dir_all fails" ->
                       /\ Fail([tag |-> "CreateParentDir",
                                path |-> parent(file.path).val, msg |-> IoMsg])
                       /\ UNCHANGED disk
                 [] OTHER ->
                       /\ Fail([tag |-> "WriteFile", path |-> file.path, msg |-> IoMsg])
                       /\ UNCHANGED disk
    /\ UNCHANGED <<input, bootstrap, files, instr, resolved, buildIdx, calls, result, out, errOut, exitCode, execVars>>
    /\ last' = None

\* run_v1's match with any present command taken as the command to run.
SelectCommandAnyCommand ==
    /\ pc = "write_files"
    /\ Len(disk) = Len(files)
    /\ input.form = "V1"
    /\ IF input.command.some
       THEN pc' = "run_direct" /\ UNCHANGED <<instr, resolved, buildIdx, error>>
       ELSE LET file_paths == get_relative_file_paths(work_path, files) IN
            IF ~file_paths.ok
            THEN Fail(file_paths.err) /\ UNCHANGED <<instr, resolved, buildIdx>>
            ELSE /\ instr' = Some(run_instructions(input.language, file_paths.val))
                 /\ resolved' = resolved + 1
                 /\ buildIdx' = 1
                 /\ pc' = "build"
                 /\ UNCHANGED error
    /\ UNCHANGED <<input, bootstrap, files, disk, calls, result, out, errOut,
                   exitCode, execVars>>
    /\ last' = None

\* run_v1: `match run_request.command`: a present, non-empty command is run as it
\* is; otherwise the language decides the commands.
SelectCommand ==
    /\ pc = "write_files"
    /\ Len(disk) = Len(files)
    /\ input.form = "V1"
    /\ IF input.command.some /\ ~is_empty(input.command.val)
       THEN pc' = "run_direct" /\ UNCHANGED <<instr, resolved, buildIdx, error>>
       ELSE LET file_paths == get_relative_file_paths(work_path, files) IN
            IF ~file_paths.ok
            THEN Fail(file_paths.err) /\ UNCHANGED <<instr, resolved, buildIdx>>
            ELSE /\ instr' = Some(run_instructions(input.language, file_paths.val))
                 /\ resolved' = resolved + 1
                 /\ buildIdx' = 1
                 /\ pc' = "build"
                 /\ UNCHANGED error
    /\ UNCHANGED <<input, bootstrap, files, disk, calls, result, out, errOut,
                   exitCode, execVars>>
    /\ last' = None

\* run_v2: run_by_instructions(work_path, &run_request.run_instructions, stdin)
UseInstructions ==
    /\ pc = "write_files"
    /\ Len(disk) = Len(files)
    /\ input.form = "V2"
    /\ instr' = Some(input.run_instructions)
    /\ buildIdx' = 1
    /\ pc' = "build"
    /\ UNCHANGED <<input, bootstrap, files, disk, resolved, calls, result,
                   error, out, errOut, exitCode, execVars>>
    /\ last' = None

\* run_by_instructions' loop with the result of compile dropped instead of `?`.
BuildIgnoringFailure ==
    /\ pc = "build"
    /\ buildIdx <= Len(instr.val.build_commands)
    /\ \E os \in OsOutcomes(None) :
          /\ Call("build", instr.val.build_commands[buildIdx], None, os)
          /\ buildIdx' = buildIdx + 1
          /\ UNCHANGED <<pc, error>>
    /\ UNCHANGED <<input, bootstrap, files, disk, instr, resolved, result, out,
                   errOut, exitCode, execVars>>

\* run_by_instructions with the request's stdin handed to the build commands too.
BuildWithStdin ==
    /\ pc = "build"
    /\ buildIdx <= Len(instr.val.build_commands)
    /\ \E os \in OsOutcomes(input.stdin) :
          LET command == instr.val.build_commands[buildIdx]
              r == run([command |-> command, stdin |-> input.stdin], os)
          IN  /\ Call("build", command, input.stdin, os)
              /\ IF r.ok
                 THEN buildIdx' = buildIdx + 1 /\ UNCHANGED <<pc, error>>
                 ELSE Fail([tag |-> "Compile", err |-> r.err]) /\ UNCHANGED buildIdx
    /\ UNCHANGED <<input, bootstrap, files, disk, instr, resolved, result, out,
                   errOut, exitCode, execVars>>

\* run_by_instructions: one turn of `for command in .. { compile(..)?; }`
Build ==
    /\ pc = "build"
    /\ buildIdx <= Len(instr.val.build_commands)
    /\ \E os \in OsOutcomes(None) :
          LET command == instr.val.build_commands[buildIdx]
              r == compile(command, os)
          IN  /\ Call("build", command, None, os)
              /\ IF r.ok
                 THEN buildIdx' = buildIdx + 1 /\ UNCHANGED <<pc, error>>
                 ELSE Fail(r.err) /\ UNCHANGED buildIdx
    /\ UNCHANGED <<input, bootstrap, files, disk, instr, resolved, result, out,
                   errOut, exitCode, execVars>>

\* run_by_instructions' last step with a failed run command returned as an Error.
RunPropagatingFailure ==
    /\ pc = "build"
    /\ buildIdx > Len(instr.val.build_commands)
    /\ \E os \in OsOutcomes(input.stdin) :
          LET r == run([command |-> instr.val.run_command, stdin |-> input.stdin], os)
          IN  /\ Call("run", instr.val.run_command, input.stdin, os)
              /\ IF r.ok
                 THEN /\ result' = Some(to_success_result(r.val))
                      /\ pc' = "serialize"
                      /\ UNCHANGED error
                 ELSE Fail([tag |-> "Compile", err |-> r.err]) /\ UNCHANGED result
    /\ UNCHANGED <<input, bootstrap, files, disk, instr, resolved, buildIdx, out,
                   errOut, exitCode, execVars>>

\* run_by_instructions: `let run_result = run_command(..); Ok(run_result)`
Run ==
    /\ pc = "build"
    /\ buildIdx > Len(instr.val.build_commands)
    /\ \E os \in OsOutcomes(input.stdin) :
          /\ Call("run", instr.val.run_command, input.stdin, os)
          /\ result' = Some(run_command(instr.val.run_command, input.stdin, os))
    /\ pc' = "serialize"
    /\ UNCHANGED <<input, bootstrap, files, disk, instr, resolved, buildIdx, error,
                   out, errOut, exitCode, execVars>>

\* run_v1's direct path with the request's stdin not handed on.
RunDirectWithoutStdin ==
    /\ pc = "run_direct"
    /\ \E os \in OsOutcomes(None) :
          /\ Call("run", input.command.val, None, os)
          /\ result' = Some(run_command(input.command.val, None, os))
    /\ pc' = "serialize"
    /\ UNCHANGED <<input, bootstrap, files, disk, instr, resolved, buildIdx, error,
                   out, errOut, exitCode, execVars>>

\* run_v1: `run_command(work_path, &command, run_request.stdin)`
RunDirect ==
    /\ pc = "run_direct"
    /\ \E os \in OsOutcomes(input.stdin) :
          /\ Call("run", input.command.val, input.stdin, os)
          /\ result' = Some(run_command(input.command.val, input.stdin, os))
    /\ pc' = "serialize"
    /\ UNCHANGED <<input, bootstrap, files, disk, instr, resolved, buildIdx, error,
                   out, errOut, exitCode, execVars>>

\* start: serde_json::to_writer(stdout, &run_result).map_err(Error::SerializeRunResult)
Serialize ==
    /\ pc = "serialize"
    /\ \E written \in BOOLEAN :
          IF written
          THEN /\ out' = Append(out, result.val)
               /\ exitCode' = Some(0)
               /\ pc' = "exit"
               /\ UNCHANGED error
          ELSE /\ Fail([tag |-> "SerializeRunResult", msg |-> IoMsg])
               /\ UNCHANGED <<out, exitCode>>
    /\ UNCHANGED <<input, bootstrap, files, disk, instr, resolved, buildIdx, calls,
                   result, errOut, execVars>>
    /\ last' = None

\* handle_error without the arm for Error::Compile: every error is printed.
HandleErrorWithoutCompileArm ==
    /\ pc = "handle_error"
    /\ errOut' = Append(errOut, Error_fmt(error.val))
    /\ exitCode' = Some(1)
    /\ pc' = "exit"
    /\ UNCHANGED <<input, bootstrap, files, disk, instr, resolved, buildIdx, calls,
                   last, result, error, out, execVars>>

\* main: start().map_err(handle_error)
HandleError ==
    /\ pc = "handle_error"
    /\ IF error.val.tag = "Compile"
       THEN \E written \in BOOLEAN :
               IF written
               THEN /\ out' = Append(out, to_error_result(error.val.err))
                    /\ exitCode' = Some(0)
                    /\ UNCHANGED errOut
               ELSE /\ errOut' = Append(errOut,
                           Error_fmt([tag |-> "SerializeRunResult", msg |-> IoMsg]))
                    /\ exitCode' = Some(1)
                    /\ UNCHANGED out
       ELSE /\ errOut' = Append(errOut, Error_fmt(error.val))
            /\ exitCode' = Some(1)
            /\ UNCHANGED out
    /\ pc' = "exit"
    /\ UNCHANGED <<input, bootstrap, files, disk, instr, resolved, buildIdx, calls,
                   last, result, error, execVars>>

Next ==
    \/ ParseRequest
    \/ WorkPath
    \/ Bootstrap
    \/ ValidateFiles
    \/ WriteFile
    \/ SelectCommand
    \/ UseInstructions
    \/ Build
    \/ Run
    \/ RunDirect
    \/ Serialize
    \/ HandleError

Spec == Init /\ [][Next]_vars

-----------------------------------------------------------------------------
(* One call of cmd::execute, with its child process and the pipes between   *)
(* them. The parent runs execute's three statements; wait_with_output is    *)
(* the standard library's: it drops the stdin handle, reads the child's     *)
(* output to end-of-file and then waits. A pipe holds PipeCap bytes: a      *)
(* write to a full pipe and a read from an empty one block.                 *)

\* The bytes of a stdin text of length n: 1, 2, ..., n.
Bytes(n) == [i \in 1..n |-> i]

\* options.stdin, as bytes.
ExecStdins == {None} \cup {Some(Bytes(n)) : n \in 0..MaxStdinLen}

\* The child's program: cat echoes its stdin to its stdout until end-of-file,
\* sink reads its stdin to end-of-file and writes nothing, true exits at once
\* and gen writes GenLen bytes without reading.
Programs == {"cat", "sink", "true", "gen"}

ExecEnvs == [spawnOk : BOOLEAN, stdinPipe : BOOLEAN, waitOk : BOOLEAN, prog : Programs]

\* The program's variables while only one execute call is modelled.
ProgIdle ==
    /\ pc = "execute"
    /\ input = [form |-> "malformed"]
    /\ bootstrap = FALSE
    /\ files = <<>>
    /\ disk = <<>>
    /\ instr = None
    /\ resolved = 0
    /\ buildIdx = 1
    /\ calls = <<>>
    /\ last = None
    /\ result = None
    /\ error = None
    /\ out = <<>>
    /\ errOut = <<>>
    /\ exitCode = None

ExecInit ==
    /\ ProgIdle
    /\ xpc = "spawn"
    /\ xopt \in ExecStdins
    /\ xenv \in ExecEnvs
    /\ xsent = <<>>
    /\ inPipe = <<>>
    /\ inOpen = FALSE
    /\ outPipe = <<>>
    /\ got = <<>>
    /\ child = [pc |-> "none", buf |-> <<>>, eof |-> FALSE, left |-> 0]
    /\ xlog = <<>>
    /\ xres = None

\* execute returns: the Child is dropped, and its handles with it.
Return(r) ==
    /\ xres' = Some(r)
    /\ xpc' = "done"

\* The child as spawn leaves it.
Spawned ==
    [pc |-> CASE xenv.prog \in {"cat", "sink"} -> "read"
              [] xenv.prog = "gen" -> "write"
              [] OTHER -> "run",
     buf |-> <<>>, eof |-> FALSE,
     left |-> IF xenv.prog = "gen" THEN GenLen ELSE 0]

\* execute with the stdin pipe looked for whether or not there is a stdin text.
XSpawnAlwaysCapture ==
    /\ xpc = "spawn"
    /\ xlog' = Append(xlog, "spawn")
    /\ IF ~xenv.spawnOk
       THEN /\ Return(Err([tag |-> "Execute", io |-> IoMsg]))
            /\ UNCHANGED <<child, inOpen>>
       ELSE /\ child' = Spawned
            /\ inOpen' = xenv.stdinPipe
            /\ xpc' = "capture"
            /\ UNCHANGED xres
    /\ UNCHANGED <<xopt, xenv, xsent, inPipe, outPipe, got, progVars>>

\* execute: `process::Command::new("sh")...spawn().map_err(ExecuteError::Execute)?`
\* and `if let Some(stdin) = options.stdin`.
XSpawn ==
    /\ xpc = "spawn"
    /\ xlog' = Append(xlog, "spawn")
    /\ IF ~xenv.spawnOk
       THEN /\ Return(Err([tag |-> "Execute", io |-> IoMsg]))
            /\ UNCHANGED <<child, inOpen>>
       ELSE /\ child' = Spawned
            /\ inOpen' = xenv.stdinPipe
            /\ xpc' = IF xopt.some THEN "capture" ELSE "wait"
            /\ UNCHANGED xres
    /\ UNCHANGED <<xopt, xenv, xsent, inPipe, outPipe, got, progVars>>

\* execute: `child.stdin.as_mut().ok_or(ExecuteError::CaptureStdin())?`
XCapture ==
    /\ xpc = "capture"
    /\ xlog' = Append(xlog, "capture")
    /\ IF ~xenv.stdinPipe
       THEN Return(Err([tag |-> "CaptureStdin"])) /\ UNCHANGED inOpen
       ELSE /\ xpc' = IF xopt.some /\ Len(xopt.val) > 0 THEN "write" ELSE "wait"
            /\ UNCHANGED <<xres, inOpen>>
    /\ UNCHANGED <<xopt, xenv, xsent, inPipe, outPipe, got, child, progVars>>

\* execute: `.write_all(stdin.as_bytes()).map_err(ExecuteError::WriteStdin)?`,
\* one write(2) of its loop: as many bytes as the pipe takes, EPIPE when the
\* child has gone; a full pipe blocks the call.
XWrite ==
    /\ xpc = "write"
    /\ xlog' = IF xlog[Len(xlog)] = "write" THEN xlog ELSE Append(xlog, "write")
    /\ IF child.pc = "exited"
       THEN /\ Return(Err([tag |-> "WriteStdin", io |-> IoMsg]))
            /\ inOpen' = FALSE
            /\ UNCHANGED <<xsent, inPipe>>
       ELSE /\ Len(inPipe) < PipeCap
            /\ LET k == Min(PipeCap - Len(inPipe), Len(xopt.val) - Len(xsent))
                   chunk == SubSeq(xopt.val, Len(xsent) + 1, Len(xsent) + k)
               IN  /\ inPipe' = inPipe \o chunk
                   /\ xsent' = xsent \o chunk
                   /\ xpc' = IF Len(xsent) + k = Len(xopt.val) THEN "wait" ELSE "write"
            /\ UNCHANGED <<xres, inOpen>>
    /\ UNCHANGED <<xopt, xenv, outPipe, got, child, progVars>>

\* wait_with_output: `drop(self.stdin.take())`
XCloseStdin ==
    /\ xpc = "wait"
    /\ xlog' = Append(xlog, "wait")
    /\ inOpen' = FALSE
    /\ xpc' = "drain"
    /\ UNCHANGED <<xopt, xenv, xsent, inPipe, outPipe, got, child, xres, progVars>>

\* wait_with_output: one read of the child's stdout.
XRead ==
    /\ xpc = "drain"
    /\ outPipe # <<>>
    /\ got' = got \o outPipe
    /\ outPipe' = <<>>
    /\ UNCHANGED <<xpc, xopt, xenv, xsent, inPipe, inOpen, child, xlog, xres, progVars>>

\* wait_with_output: end-of-file on the child's output, then wait().
XWait ==
    /\ xpc = "drain"
    /\ outPipe = <<>>
    /\ child.pc = "exited"
    /\ IF xenv.waitOk
       THEN Return(Ok([status |-> [success |-> TRUE, code |-> Some(0)],
                       stdout |-> got, stderr |-> <<>>]))
       ELSE Return(Err([tag |-> "WaitForChild", io |-> IoMsg]))
    /\ UNCHANGED <<xopt, xenv, xsent, inPipe, inOpen, outPipe, got, child, xlog, progVars>>

\* The child reads its stdin: up to ChildBuf bytes, or end-of-file once the pipe
\* is empty and the parent has closed it; an empty open pipe blocks the read.
CRead ==
    /\ xpc # "done"
    /\ child.pc = "read"
    /\ IF inPipe # <<>>
       THEN LET n == Min(ChildBuf, Len(inPipe)) IN
            /\ inPipe' = SubSeq(inPipe, n + 1, Len(inPipe))
            /\ child' = IF xenv.prog = "cat"
                        THEN [child EXCEPT !.buf = SubSeq(inPipe, 1, n), !.pc = "write"]
                        ELSE child
       ELSE /\ ~inOpen
            /\ child' = [child EXCEPT !.eof = TRUE, !.pc = "exited"]
            /\ UNCHANGED inPipe
    /\ UNCHANGED <<xpc, xopt, xenv, xsent, inOpen, outPipe, got, xlog, xres, progVars>>

\* The child writes to its stdout: as many bytes as the pipe takes; a full pipe
\* blocks the write.
CWrite ==
    /\ xpc # "done"
    /\ child.pc = "write"
    /\ Len(outPipe) < PipeCap
    /\ IF xenv.prog = "cat"
       THEN LET k == Min(PipeCap - Len(outPipe), Len(child.buf)) IN
            /\ outPipe' = outPipe \o SubSeq(child.buf, 1, k)
            /\ child' = [child EXCEPT
                            !.buf = SubSeq(child.buf, k + 1, Len(child.buf)),
                            !.pc = IF k = Len(child.buf) THEN "read" ELSE "write"]
       ELSE LET k == Min(PipeCap - Len(outPipe), child.left) IN
            /\ outPipe' = outPipe \o [i \in 1..k |-> 0]
            /\ child' = [child EXCEPT
                            !.left = child.left - k,
                            !.pc = IF k = child.left THEN "exited" ELSE "write"]
    /\ UNCHANGED <<xpc, xopt, xenv, xsent, inPipe, inOpen, got, xlog, xres, progVars>>

\* The child exits without reading or writing.
CExit ==
    /\ xpc # "done"
    /\ child.pc = "run"
    /\ child' = [child EXCEPT !.pc = "exited"]
    /\ UNCHANGED <<xpc, xopt, xenv, xsent, inPipe, inOpen, outPipe, got, xlog, xres, progVars>>

ParentStep == XSpawn \/ XCapture \/ XWrite \/ XCloseStdin \/ XRead \/ XWait

ChildStep == CRead \/ CWrite \/ CExit

ExecNext ==
    \/ XSpawn
    \/ XCapture
    \/ XWrite
    \/ XCloseStdin
    \/ XRead
    \/ XWait
    \/ CRead
    \/ CWrite
    \/ CExit

ExecSpec == ExecInit /\ [][ExecNext]_vars

\* The scheduler runs a process that can run.
ExecFairSpec == ExecSpec /\ WF_vars(ParentStep) /\ WF_vars(ChildStep)

-----------------------------------------------------------------------------
(* Claims about execute (ExecSpec). *)

\* The stdin text of the call, as bytes (none when stdin is absent).
StdinBytes == IF xopt.some THEN xopt.val ELSE <<>>

\* The call meets no OS fault: spawn, the stdin pipe and wait all succeed.
NoFault == xenv.spawnOk /\ xenv.stdinPipe /\ xenv.waitOk

\* C3: execute never deadlocks with a live child that reads its stdin and writes
\* output (an echo of its stdin): as long as execute has not returned and the
\* child is alive, the parent or the child can take a step.
C3_NeverDeadlocks ==
    (xpc \notin {"idle", "done"} /\ xenv.prog = "cat" /\ child.pc \in {"read", "write"})
        => ENABLED ExecNext

\* C4: once the wait for completion has started, every byte of the stdin text has
\* been written and the stdin pipe is closed; and a child that echoes its stdin to
\* end-of-file always sees end-of-file, execute returning its stdout equal to the
\* supplied text.
C4_StdinDeliveredAndEchoed ==
    /\ [](xpc = "drain" => (xsent = StdinBytes /\ ~inOpen))
    /\ (xpc = "spawn" /\ xenv.prog = "cat" /\ NoFault)
          ~> (child.eof /\ xpc = "done" /\ xres.val.ok /\ xres.val.val.stdout = StdinBytes)

\* The part of C4 that holds of the code: the stdin text is written in full and
\* the pipe closed before the wait, and an echo that execute returns is complete.
StdinWrittenAndClosedBeforeWait ==
    /\ xpc = "drain" => (xsent = StdinBytes /\ ~inOpen)
    /\ (xpc = "done" /\ xres.val.ok /\ xenv.prog = "cat") => xres.val.val.stdout = StdinBytes

\* What execute has done when it returns each of its errors.
ErrorAfter(tag) ==
    CASE tag = "Execute" -> <<"spawn">>
      [] tag = "CaptureStdin" -> <<"spawn", "capture">>
      [] tag = "WriteStdin" -> <<"spawn", "capture", "write">>
      [] OTHER -> IF ~xopt.some THEN <<"spawn", "wait">>
                  ELSE IF Len(xopt.val) = 0 THEN <<"spawn", "capture", "wait">>
                  ELSE <<"spawn", "capture", "write", "wait">>

\* C5: each OS-level failure has its own error kind, met in the order spawn,
\* capture stdin, write stdin, wait, and nothing is tried again: a call spawns at
\* most one child; a failed spawn gives Execute with nothing written or waited
\* for; a missing stdin pipe gives CaptureStdin and a failed write WriteStdin,
\* both only when a stdin text was supplied; a failed wait gives WaitForChild.
C5_ExecuteErrorKinds ==
    /\ Cardinality({i \in 1..Len(xlog) : xlog[i] = "spawn"}) <= 1
    /\ \A i \in 1..Len(xlog) : \A j \in 1..Len(xlog) : i < j => xlog[i] # xlog[j]
    /\ (xpc = "done" /\ ~xenv.spawnOk) =>
          (xres.val = Err([tag |-> "Execute", io |-> IoMsg]) /\ xsent = <<>>
           /\ xlog = <<"spawn">>)
    /\ (xpc = "done" /\ xenv.spawnOk /\ xopt.some /\ ~xenv.stdinPipe) =>
          (xres.val = Err([tag |-> "CaptureStdin"]) /\ xsent = <<>>)
    /\ (xpc = "done" /\ ~xres.val.ok) =>
          /\ xlog = ErrorAfter(xres.val.err.tag)
          /\ xres.val.err.tag \in {"CaptureStdin", "WriteStdin"} => xopt.some
          /\ xres.val.err.tag = "Execute" <=> ~xenv.spawnOk
          /\ xres.val.err.tag = "CaptureStdin" => ~xenv.stdinPipe
          /\ xres.val.err.tag = "WriteStdin" => child.pc = "exited"
          /\ xres.val.err.tag = "WaitForChild" => (~xenv.waitOk /\ xsent = StdinBytes)
    /\ (xpc = "done" /\ xres.val.ok) => (NoFault \/ (~xopt.some /\ xenv.spawnOk /\ xenv.waitOk))

\* A write to the stdin pipe failed after part of the text had been written.
C5_Witness ==
    /\ xpc = "done"
    /\ xres.val = Err([tag |-> "WriteStdin", io |-> IoMsg])
    /\ Len(xsent) > 0

-----------------------------------------------------------------------------
(* Claims about the program (Spec). *)

\* The build and run commands this process has executed (the bootstrap's tar
\* left out), in order.
RunCalls == SelectSeq(calls, LAMBDA c : c.role # "bootstrap")

\* The same, as the (command, stdin) pairs handed to cmd::run.
RunCallOptions ==
    [i \in 1..Len(RunCalls) |->
        [command |-> RunCalls[i].command, stdin |-> RunCalls[i].stdin]]

\* C1: the commands run_by_instructions executes are a prefix of build_commands
\* followed by run_command, in that order; a command is executed only if every
\* command before it succeeded, so the first build command that fails is the last
\* command executed and the run command needs every build command to succeed; the
\* error reported is the one of that failing build command.
C1_BuildPrefixThenRun ==
    instr.some =>
        LET b == instr.val.build_commands
            plan == b \o <<instr.val.run_command>>
        IN  /\ Len(RunCalls) <= Len(plan)
            /\ \A i \in 1..Len(RunCalls) :
                  /\ RunCalls[i].command = plan[i]
                  /\ RunCalls[i].role = (IF i <= Len(b) THEN "build" ELSE "run")
                  /\ \A j \in 1..(i - 1) : RunCalls[j].ok
                  /\ (RunCalls[i].role = "build" /\ ~RunCalls[i].ok) =>
                        /\ i = Len(RunCalls)
                        /\ pc \in {"handle_error", "exit"}
                        /\ error.some /\ error.val.tag = "Compile"
                        /\ result = None
            /\ (last.some /\ last.val.role = "build" /\ ~last.val.res.ok) =>
                  error = Some([tag |-> "Compile", err |-> last.val.res.err])
            /\ (error.some /\ error.val.tag = "Compile") =>
                  (Len(RunCalls) > 0 /\ ~RunCalls[Len(RunCalls)].ok
                   /\ RunCalls[Len(RunCalls)].role = "build")

\* The first of two build commands failed and the process has ended.
C1_Witness ==
    /\ instr.some
    /\ Len(instr.val.build_commands) = 2
    /\ Len(RunCalls) = 1
    /\ ~RunCalls[1].ok
    /\ pc = "exit"

\* C2: once every build command has succeeded, run_by_instructions returns a
\* RunResult whatever the run command does: a failed run command (non-zero exit,
\* signal, undecodable stream, execution fault) becomes the RunResult that
\* to_error_result gives, never an Error of the pipeline.
C2_RunFailureIsAResult ==
    /\ pc = "serialize" => (result.some /\ error = None)
    /\ (last.some /\ last.val.role = "run") =>
          /\ pc = "serialize"
          /\ error = None
          /\ result = Some(IF last.val.res.ok
                           THEN to_success_result(last.val.res.val)
                           ELSE to_error_result(last.val.res.err))
    /\ (instr.some /\ Len(RunCalls) = Len(instr.val.build_commands) + 1) =>
          /\ result.some
          /\ error.some => error.val.tag = "SerializeRunResult"

\* Two build commands succeeded, the run command could not be executed, and
\* run_by_instructions has returned a RunResult.
C2_Witness ==
    /\ instr.some
    /\ Len(instr.val.build_commands) = 2
    /\ last.some
    /\ last.val.role = "run"
    /\ ~last.val.os.exec.ok
    /\ result.some
    /\ error = None

\* The scalar value of a character (the inverse of Chr).
Ord(c) ==
    CASE c = "\n" -> 10
      [] c = "5" -> 53
      [] c = "e" -> 101
      [] c = "k" -> 107
      [] c = "o" -> 111
      [] c = "￩" -> 65513
      [] OTHER -> 63

\* The UTF-8 encoding of a text (of scalar values below 65536).
RECURSIVE Utf8Encode(_)
Utf8Encode(t) ==
    IF Len(t) = 0 THEN <<>>
    ELSE LET cp == Ord(SubSeq(t, 1, 1)) IN
         (IF cp < 128 THEN <<cp>>
          ELSE IF cp < 2048 THEN <<192 + (cp \div 64), 128 + (cp % 64)>>
          ELSE <<224 + (cp \div 4096), 128 + ((cp \div 64) % 64), 128 + (cp % 64)>>)
         \o Utf8Encode(SubSeq(t, 2, Len(t)))

\* The bytes are the UTF-8 encoding of a text.
IsUtf8(bytes) == \E t \in {"", "ok", "￩"} : Utf8Encode(t) = bytes

\* C6: get_output gives SuccessOutput exactly for a successful exit status with
\* two valid UTF-8 streams, ExitFailure exactly for a failed status with two valid
\* streams (the exit code absent for a signal), ReadStdout or ReadStderr exactly
\* when a stream is not valid UTF-8; the texts it carries encode back to the bytes
\* of the streams, the duration is the one measured; "ok" and exit 0 give stdout
\* "ok" and stderr "".
C6_OutputClassified ==
    (last.some /\ last.val.os.exec.ok) =>
        LET o == last.val.os.exec.val
            r == last.val.res
            valid == IsUtf8(o.stdout) /\ IsUtf8(o.stderr)
        IN  /\ r.ok <=> (o.status.success /\ valid)
            /\ r.ok =>
                  /\ Utf8Encode(r.val.stdout) = o.stdout
                  /\ Utf8Encode(r.val.stderr) = o.stderr
                  /\ r.val.duration = last.val.os.t1
            /\ ~r.ok =>
                  /\ r.err.tag = "Output"
                  /\ r.err.err.tag \in {"ExitFailure", "ReadStdout", "ReadStderr"}
                  /\ r.err.err.tag = "ExitFailure" <=> (~o.status.success /\ valid)
                  /\ r.err.err.tag = "ExitFailure" =>
                        /\ Utf8Encode(r.err.err.output.stdout) = o.stdout
                        /\ Utf8Encode(r.err.err.output.stderr) = o.stderr
                        /\ r.err.err.output.exit_code = o.status.code
                  /\ r.err.err.tag = "ReadStdout" => ~IsUtf8(o.stdout)
                  /\ r.err.err.tag = "ReadStderr" => ~IsUtf8(o.stderr)
            /\ (o.status.success /\ o.stdout = <<111, 107>> /\ o.stderr = <<>>) =>
                  (r.ok /\ r.val.stdout = "ok" /\ r.val.stderr = "")

\* A command wrote "ok" and exited 0.
C6_Witness ==
    /\ last.some
    /\ last.val.os.exec.ok
    /\ last.val.os.exec.val.status.success
    /\ last.val.os.exec.val.stdout = <<111, 107>>
    /\ last.val.os.exec.val.stderr = <<>>
    /\ last.val.res.ok

\* The rendering the claim describes, case by case.
Rendering(o) ==
    LET code == "code: " \o (IF o.exit_code.some THEN ToString(o.exit_code.val) ELSE "")
        sout == "stdout: " \o o.stdout
        serr == "stderr: " \o o.stderr
        c == o.exit_code.some
        so == o.stdout # ""
        se == o.stderr # ""
    IN  CASE c /\ so /\ se -> code \o ", " \o sout \o ", " \o serr
          [] c /\ so /\ ~se -> code \o ", " \o sout
          [] c /\ ~so /\ se -> code \o ", " \o serr
          [] c /\ ~so /\ ~se -> code
          [] ~c /\ so /\ se -> sout \o ", " \o serr
          [] ~c /\ so /\ ~se -> sout
          [] ~c /\ ~so /\ se -> serr
          [] OTHER -> ""

\* C7: the Display of an ExitFailure's ErrorOutput is the ", "-joined list of
\* "code: <n>", "stdout: <text>", "stderr: <text>", each only if present or
\* non-empty, in that order; empty when there is nothing to show; for exit code 2
\* and a non-empty stderr it contains "code: 2" and the stderr text. The program
\* prints it when the bootstrap's tar exits with a failure.
C7_ErrorOutputRendering ==
    /\ (last.some /\ ~last.val.res.ok /\ last.val.res.err.tag = "Output"
        /\ last.val.res.err.err.tag = "ExitFailure") =>
          LET o == last.val.res.err.err.output IN
          /\ ErrorOutput_fmt(o) = Rendering(o)
          /\ (o.exit_code = Some(2) /\ o.stderr # "") =>
                (Contains(ErrorOutput_fmt(o), "code: 2")
                 /\ Contains(ErrorOutput_fmt(o), o.stderr))
          /\ (~o.exit_code.some /\ o.stdout = "" /\ o.stderr = "") =>
                ErrorOutput_fmt(o) = ""
    /\ (pc = "exit" /\ error.some /\ error.val.tag = "Bootstrap"
        /\ error.val.err.tag = "Output" /\ error.val.err.err.tag = "ExitFailure") =>
          errOut = <<"Failed to unpack bootstrap file: Error in output from command. "
                     \o "Exited with non-zero exit code. "
                     \o Rendering(error.val.err.err.output)>>

\* A command exited 2 after writing to both of its streams.
C7_Witness ==
    /\ last.some
    /\ ~last.val.res.ok
    /\ last.val.res.err.tag = "Output"
    /\ last.val.res.err.err.tag = "ExitFailure"
    /\ last.val.res.err.err.output.exit_code = Some(2)
    /\ last.val.res.err.err.output.stdout = "ok"
    /\ last.val.res.err.err.output.stderr = "￩"
    /\ ErrorOutput_fmt(last.val.res.err.err.output) = "code: 2, stdout: ok, stderr: ￩"

\* C8: run_v1's direct-command path executes the same single command with the
\* same stdin and returns the same RunResult as run_by_instructions does for
\* RunInstructions{build_commands = [], run_command = c} under the same outcome
\* of the command; so does the instructions path of the program when the build
\* list is empty.
C8_DirectPathIsEmptyBuildList ==
    (last.some /\ last.val.role = "run") =>
        LET c == IF instr.some THEN instr.val.run_command ELSE input.command.val
            ref == run_by_instructions(RunInstructions(<<>>, c), input.stdin,
                                       <<last.val.os>>)
        IN  (~instr.some \/ instr.val.build_commands = <<>>) =>
                /\ RunCallOptions = ref.calls
                /\ Ok(result.val) = ref.ret

\* The direct path has run a command that was given a stdin text and failed.
C8_Witness ==
    /\ last.some
    /\ last.val.role = "run"
    /\ ~instr.some
    /\ input.form = "V1"
    /\ input.stdin.some
    /\ ~last.val.res.ok
    /\ result.some

\* The names of the request's files: the main file and the other files.
RequestPaths ==
    [head |-> input.files[1].name,
     tail |-> [i \in 1..(Len(input.files) - 1) |-> input.files[i + 1].name]]

\* C9: in run_v1 a present, non-empty command is executed as it is and the
\* language resolver is never consulted (no build command runs); with the command
\* absent, or present but empty, the commands executed are those
\* language::run_instructions gives for the request's language and files.
C9_CommandTriState ==
    input.form = "V1" =>
        IF input.command.some /\ input.command.val # ""
        THEN /\ resolved = 0
             /\ ~instr.some
             /\ \A i \in 1..Len(RunCalls) :
                   RunCalls[i].role = "run" /\ RunCalls[i].command = input.command.val
        ELSE /\ pc # "run_direct"
             /\ (Len(RunCalls) > 0 \/ pc \in {"build", "serialize"}) => instr.some
             /\ instr.some =>
                   /\ resolved = 1
                   /\ instr.val = run_instructions(input.language, RequestPaths)
                   /\ \A i \in 1..Len(RunCalls) :
                         RunCalls[i].command =
                            (instr.val.build_commands \o <<instr.val.run_command>>)[i]

\* The command is present but empty, and a build command of the language ran.
C9_Witness ==
    /\ input.form = "V1"
    /\ input.command = Some("")
    /\ instr.some
    /\ Len(RunCalls) > 0
    /\ RunCalls[1].role = "build"

\* Some file entry of the request has an empty name or an empty content.
BadEntries ==
    IF input.form = "malformed" THEN {}
    ELSE {i \in 1..Len(input.files) :
            input.files[i].name = "" \/ input.files[i].content = ""}

\* The error of the first such entry: its name is looked at before its content.
FirstBadEntryError ==
    LET i == CHOOSE i \in BadEntries : \A j \in BadEntries : i <= j IN
    IF input.files[i].name = "" THEN [tag |-> "EmptyFileName"]
    ELSE [tag |-> "EmptyFileContent"]

\* C10 as stated: with a bad file entry the request is rejected with the
\* empty-name / empty-content error before any file is written and before any
\* child process is spawned.
C10_RejectedBeforeAnySpawn ==
    BadEntries # {} =>
        /\ disk = <<>>
        /\ calls = <<>>
        /\ pc = "exit" => error = Some(FirstBadEntryError)

\* C10, amended: with a bad file entry no file of the request is ever written and
\* no build or run command is ever executed, and nothing is written to stdout;
\* the one child process that can have been spawned is the bootstrap's tar, which
\* start runs before the entries are checked; unless start has failed before
\* that check (clock error, failed unpack), the request ends with the
\* empty-name / empty-content error of its first bad entry.
C10_RejectedBeforeWriteAndCommands ==
    BadEntries # {} =>
        /\ disk = <<>>
        /\ RunCalls = <<>>
        /\ Len(calls) <= 1
        /\ instr = None /\ result = None /\ out = <<>>
        /\ pc \in {"write_files", "run_direct", "build", "serialize"} => FALSE
        /\ error.some =>
              \/ error.val.tag \in {"GetTimestamp", "Bootstrap"}
              \/ error.val = FirstBadEntryError
        /\ pc = "exit" => (error.some /\ exitCode = Some(1))

\* A request whose second entry is bad was rejected with that entry's error after
\* the bootstrap archive had been unpacked.
C10_Witness ==
    /\ pc = "exit"
    /\ input.form # "malformed"
    /\ BadEntries = {2}
    /\ Len(calls) = 1
    /\ error = Some([tag |-> "EmptyFileContent"])
    /\ disk = <<>>

\* What the caller of the process observes: its stdout, its stderr and its exit
\* code.
Emitted == [out |-> out, errOut |-> errOut, exitCode |-> exitCode]

\* The fields of a serialized RunResult.
RunResultFields == {"stdout", "stderr", "error", "duration"}

\* C11: a failed build command is the only top-level fault after which a
\* RunResult is written to stdout: it has the four fields of a RunResult and is
\* the RunResult a run command with the same outcome would give; after every
\* other fault nothing is written to stdout, the error is printed to stderr and
\* the process exits with a non-zero code.
C11_OnlyBuildFailureWritesResult ==
    (pc = "exit" /\ error.some) =>
        IF error.val.tag = "Compile"
        THEN /\ last.some /\ last.val.role = "build" /\ ~last.val.res.ok
             /\ \/ /\ Len(out) = 1
                   /\ DOMAIN out[1] = RunResultFields
                   /\ out[1] = run_command(RunCalls[Len(RunCalls)].command, None,
                                           last.val.os)
                   /\ errOut = <<>>
                \/ /\ out = <<>>
                   /\ errOut = <<"Failed to serialize run result: " \o IoMsg>>
                   /\ exitCode = Some(1)
        ELSE /\ out = <<>>
             /\ errOut = <<Error_fmt(error.val)>>
             /\ Len(errOut[1]) > 0
             /\ exitCode = Some(1)

\* A build command exited 2 and the process wrote the RunResult of that failure.
C11_Witness ==
    /\ pc = "exit"
    /\ error.some
    /\ error.val.tag = "Compile"
    /\ Len(out) = 1
    /\ out[1].error = "Exit code: 2"

\* C12: what the process emits after a failed build command differs from what it
\* emits when the run command has the same outcome (and the result is written).
C12_BuildFailureDistinguishable ==
    (pc = "exit" /\ last.some /\ last.val.role = "build" /\ ~last.val.res.ok
     /\ out # <<>>) =>
        Emitted # [out |-> <<run_command(RunCalls[Len(RunCalls)].command, None,
                                         last.val.os)>>,
                   errOut |-> <<>>,
                   exitCode |-> Some(0)]

\* What the process emits after its run command: the RunResult of run_command,
\* nothing on stderr, exit code 0 (the other side of C12's comparison).
RunStepEmission ==
    (pc = "exit" /\ error = None) =>
        /\ RunCalls[Len(RunCalls)].role = "run"
        /\ Emitted = [out |-> <<result.val>>, errOut |-> <<>>, exitCode |-> Some(0)]

\* C19: every build command is executed with no stdin; the request's stdin goes
\* to the run command, as it was in the request, and so to at most one command.
C19_StdinOnlyToRunCommand ==
    /\ \A i \in 1..Len(RunCalls) :
          /\ RunCalls[i].role = "build" => RunCalls[i].stdin = None
          /\ RunCalls[i].role = "run" =>
                (RunCalls[i].stdin = input.stdin /\ i = Len(RunCalls))
    /\ Cardinality({i \in 1..Len(RunCalls) : RunCalls[i].stdin.some}) <= 1
    /\ \A i \in 1..Len(calls) : calls[i].role = "bootstrap" => calls[i].stdin = None

\* Two build commands ran without stdin and the run command got the stdin text.
C19_Witness ==
    /\ instr.some
    /\ Len(RunCalls) = 3
    /\ RunCalls[1].stdin = None
    /\ RunCalls[2].stdin = None
    /\ RunCalls[3].role = "run"
    /\ RunCalls[3].stdin = Some("5\n")

\* C20: the error field of an emitted RunResult is "" exactly when the command
\* that produced it succeeded.
C20_ErrorEmptyIffSuccess ==
    out # <<>> => (out[1].error = "" <=> RunCalls[Len(RunCalls)].ok)

-----------------------------------------------------------------------------
(* The language resolver on its own: run_v1 from the point where the files  *)
(* of a request without a command are written, for every language and a     *)
(* choice of file names.                                                    *)

\* The extension the source files of a language carry.
OwnExtension(language) ==
    CASE language = "Assembly" -> "asm" [] language = "Ats" -> "dats"
      [] language = "Bash" -> "sh" [] language = "C" -> "c"
      [] language = "Clisp" -> "lisp" [] language = "Clojure" -> "clj"
      [] language = "Cobol" -> "cob" [] language = "CoffeeScript" -> "coffee"
      [] language = "Cpp" -> "cpp" [] language = "Crystal" -> "cr"
      [] language = "Csharp" -> "cs" [] language = "D" -> "d"
      [] language = "Dart" -> "dart" [] language = "Elixir" -> "ex"
      [] language = "Elm" -> "elm" [] language = "Erlang" -> "erl"
      [] language = "Fsharp" -> "fs" [] language = "Go" -> "go"
      [] language = "Groovy" -> "groovy" [] language = "Guile" -> "scm"
      [] language = "Hare" -> "ha" [] language = "Haskell" -> "hs"
      [] language = "Idris" -> "idr" [] language = "Java" -> "java"
      [] language = "JavaScript" -> "js" [] language = "Julia" -> "jl"
      [] language = "Kotlin" -> "kt" [] language = "Lua" -> "lua"
      [] language = "Mercury" -> "m" [] language = "Nim" -> "nim"
      [] language = "Nix" -> "nix" [] language = "Ocaml" -> "ml"
      [] language = "Pascal" -> "pp" [] language = "Perl" -> "pl"
      [] language = "Php" -> "php" [] language = "Python" -> "py"
      [] language = "Raku" -> "raku" [] language = "Ruby" -> "rb"
      [] language = "Rust" -> "rs" [] language = "SaC" -> "sac"
      [] language = "Scala" -> "scala" [] language = "Swift" -> "swift"
      [] language = "TypeScript" -> "ts" [] OTHER -> "zig"

\* The stems of the main file: lower case, mixed case, one character, not ASCII,
\* in a directory.
MainStems == {"main", "hello", "HelloWorld", "a", "￩", "src/app"}

\* The names of the other files: two of the language, one of no language, a C
\* file and a file whose extension differs from C's by its case only.
OtherNames(language) ==
    {"util." \o OwnExtension(language), "lib." \o OwnExtension(language),
     "notes.txt", "util.c", "util.C"}

\* A file entry with this name.
Entry(name) == [name |-> name, content |-> "x"]

\* The file lists: a main file and at most MaxOthers other files.
FileLists(language) ==
    {<<Entry(stem \o "." \o OwnExtension(language))>>
        \o [i \in 1..Len(o) |-> Entry(o[i])] :
            stem \in MainStems, o \in SeqsUpTo(OtherNames(language), MaxOthers)}

\* The requests that reach the resolver: no command, or an empty one.
LangRequests ==
    UNION {[form : {"V1"}, language : {l}, files : FileLists(l), stdin : {None},
            command : {None, Some("")}] : l \in Language}

LangInit ==
    /\ pc = "write_files"
    /\ input \in LangRequests
    /\ bootstrap = FALSE
    /\ files = collect_files(work_path, input.files).val
    /\ disk = files
    /\ instr = None
    /\ resolved = 0
    /\ buildIdx = 1
    /\ calls = <<>>
    /\ last = None
    /\ result = None
    /\ error = None
    /\ out = <<>>
    /\ errOut = <<>>
    /\ exitCode = None
    /\ ExecIdle

LangNext == SelectCommand

LangSpec == LangInit /\ [][LangNext]_vars

-----------------------------------------------------------------------------
(* Claims about the language resolver (LangSpec). *)

\* The resolver has given the instructions of the request.
Resolved == pc = "build" /\ instr.some

\* The words of a command: its maximal runs of characters other than the space.
RECURSIVE Words(_, _)
Words(command, word) ==
    IF command = ""
    THEN IF word = "" THEN <<>> ELSE <<word>>
    ELSE IF SubSeq(command, 1, 1) = " "
         THEN (IF word = "" THEN <<>> ELSE <<word>>)
              \o Words(SubSeq(command, 2, Len(command)), "")
         ELSE Words(SubSeq(command, 2, Len(command)), word \o SubSeq(command, 1, 1))

\* The file arguments of a command: its words that name a file of the request.
FileArgs(command) ==
    SelectSeq(Words(command, ""),
              LAMBDA w : \E i \in 1..Len(input.files) : input.files[i].name = w)

\* The name ends with "." and the extension, after at least one more character.
HasExtension(name, ext) ==
    /\ Len(name) > Len(ext) + 1
    /\ SubSeq(name, Len(name) - Len(ext), Len(name)) = "." \o ext
    /\ SubSeq(name, Len(name) - Len(ext) - 1, Len(name) - Len(ext) - 1) # "/"

\* The request's main file, and those of its other files that have the extension,
\* in the order of the request.
MainFile == input.files[1].name
OthersWith(ext) ==
    SelectSeq([i \in 1..(Len(input.files) - 1) |-> input.files[i + 1].name],
              LAMBDA f : HasExtension(f, ext))

\* A sequence backwards.
Backwards(q) == [i \in 1..Len(q) |-> q[Len(q) + 1 - i]]

MultiFileLanguages ==
    {"C", "Cpp", "Csharp", "D", "Ats", "Cobol", "Mercury", "Scala", "Swift",
     "TypeScript", "SaC"}

\* The statement of C13 for one language.
MultiFileBuild(language) ==
    (Resolved /\ input.language = language) =>
        /\ Len(instr.val.build_commands) = 1
        /\ FileArgs(instr.val.build_commands[1])
              = <<MainFile>> \o OthersWith(OwnExtension(language))

\* C13: for every multi-file compiled language there is exactly one build
\* command, and its file arguments are the main file followed by the other files
\* whose extension is the language's own (exact match), in the request's order;
\* C with main.c and [util.c, notes.txt] compiles main.c util.c.
C13_MultiFileBuildArguments ==
    /\ \A language \in MultiFileLanguages : MultiFileBuild(language)
    /\ (Resolved /\ input.language = "C" /\ MainFile = "main.c"
        /\ Len(input.files) = 3 /\ input.files[2].name = "util.c"
        /\ input.files[3].name = "notes.txt") =>
          instr.val.build_commands = <<"clang -o a.out -lm main.c util.c">>

\* C13 holds of the multi-file languages other than C++ and SaC.
MultiFileBuildButCppAndSaC ==
    \A language \in MultiFileLanguages \ {"Cpp", "SaC"} : MultiFileBuild(language)

\* C14: for F# and OCaml there is exactly one build command, and its file
\* arguments are the other files with the extension fs (resp. ml), last of the
\* request first, and then the main file as the last argument.
C14_ReversedOthersThenMain ==
    (Resolved /\ input.language \in {"Fsharp", "Ocaml"}) =>
        LET args == FileArgs(instr.val.build_commands[1])
            words == Words(instr.val.build_commands[1], "")
        IN  /\ Len(instr.val.build_commands) = 1
            /\ args = Backwards(OthersWith(OwnExtension(input.language))) \o <<MainFile>>
            /\ words[Len(words)] = MainFile
            /\ \A i \in 1..(Len(args) - 1) : args[i] # MainFile

\* F# with the other files util.fs and lib.fs: lib.fs, util.fs, then the main file.
C14_Witness ==
    /\ Resolved
    /\ input.language = "Fsharp"
    /\ Len(input.files) = 3
    /\ input.files[2].name = "util.fs"
    /\ input.files[3].name = "lib.fs"
    /\ instr.val.build_commands = <<"fsharpc --out:a.exe lib.fs util.fs main.fs">>

\* The class name the claim gives for each main file of the model.
ClassName ==
    LET ext == "." \o OwnExtension(input.language) IN
    CASE MainFile = "main" \o ext -> "Main"
      [] MainFile = "hello" \o ext -> "Hello"
      [] MainFile = "HelloWorld" \o ext -> "HelloWorld"
      [] MainFile = "a" \o ext -> "a"
      [] MainFile = "￩" \o ext -> "￩"
      [] MainFile = "src/app" \o ext -> "App"

\* C15: for Java and Kotlin the class name of the run command is the main file's
\* stem with its first character upper-cased (ASCII), left as it is when it is
\* not ASCII or has fewer than 2 characters; the run command is "java <Name>",
\* resp. "kotlin <Name>Kt", and the one build command compiles the main file only.
C15_ClassNameFromStem ==
    /\ (Resolved /\ input.language = "Java") =>
          /\ instr.val.run_command = "java " \o ClassName
          /\ instr.val.build_commands = <<"javac " \o MainFile>>
    /\ (Resolved /\ input.language = "Kotlin") =>
          /\ instr.val.run_command = "kotlin " \o ClassName \o "Kt"
          /\ instr.val.build_commands = <<"kotlinc " \o MainFile>>

\* hello.java with another Java file: "java Hello", and only hello.java compiled.
C15_Witness ==
    /\ Resolved
    /\ input.language = "Java"
    /\ MainFile = "hello.java"
    /\ Len(input.files) = 2
    /\ input.files[2].name = "util.java"
    /\ instr.val.run_command = "java Hello"
    /\ instr.val.build_commands = <<"javac hello.java">>

\* C16: for Erlang there is one build command per other file with the extension
\* erl, "erlc <file>", in the request's order; the main file is in no build
\* command and the run command is "escript <main file>".
C16_ErlangOneBuildPerFile ==
    (Resolved /\ input.language = "Erlang") =>
        LET erl == OthersWith("erl") IN
        /\ Len(instr.val.build_commands) = Len(erl)
        /\ \A i \in 1..Len(erl) :
              /\ instr.val.build_commands[i] = "erlc " \o erl[i]
              /\ Len(FileArgs(instr.val.build_commands[i])) = 1
              /\ FileArgs(instr.val.build_commands[i]) # <<MainFile>>
        /\ instr.val.run_command = "escript " \o MainFile

\* Erlang with util.erl and lib.erl: two build commands.
C16_Witness ==
    /\ Resolved
    /\ input.language = "Erlang"
    /\ Len(input.files) = 3
    /\ input.files[2].name = "util.erl"
    /\ input.files[3].name = "lib.erl"
    /\ instr.val.build_commands = <<"erlc util.erl", "erlc lib.erl">>

\* At least one build command, the first one naming the main file (and no other
\* file), the last one producing a.out; the run command invokes ./a.out and names
\* no file of the request.
BuildsArtifactThenRunsIt ==
    /\ Len(instr.val.build_commands) >= 1
    /\ FileArgs(instr.val.build_commands[1]) = <<MainFile>>
    /\ Contains(instr.val.build_commands[Len(instr.val.build_commands)], "-o a.out")
    /\ instr.val.run_command = "./a.out"
    /\ FileArgs(instr.val.run_command) = <<>>

\* Exactly two build commands: nasm, then ld on nasm's output.
AssemblesThenLinks ==
    /\ Len(instr.val.build_commands) = 2
    /\ Words(instr.val.build_commands[1], "")[1] = "nasm"
    /\ Contains(instr.val.build_commands[1], "-o a.o ")
    /\ instr.val.build_commands[2] = "ld -o a.out a.o"

\* C17 as stated: each of Rust, Go, Zig, Nim, Crystal and assembly has at least
\* one build command producing a fixed artifact from the main file and a run
\* command that invokes the artifact and does not name the source file; assembly
\* has exactly two build commands, assemble before link.
C17_SingleFileCompileThenRun ==
    (Resolved /\ input.language \in {"Rust", "Go", "Zig", "Nim", "Crystal", "Assembly"}) =>
        /\ BuildsArtifactThenRunsIt
        /\ input.language = "Assembly" => AssemblesThenLinks

\* C17, amended: that holds of Rust, Go and assembly; Zig, Nim and Crystal have
\* no build command, and their run command is the compiler's compile-and-run
\* invocation, whose one file argument, the last word, is the main file.
C17_CompileThenRunOrCompilerRun ==
    /\ (Resolved /\ input.language \in {"Rust", "Go", "Assembly"}) =>
          /\ BuildsArtifactThenRunsIt
          /\ input.language = "Assembly" => AssemblesThenLinks
    /\ (Resolved /\ input.language \in {"Zig", "Nim", "Crystal"}) =>
          LET words == Words(instr.val.run_command, "") IN
          /\ instr.val.build_commands = <<>>
          /\ FileArgs(instr.val.run_command) = <<MainFile>>
          /\ words[Len(words)] = MainFile
          /\ words[1] = (CASE input.language = "Zig" -> "zig"
                           [] input.language = "Nim" -> "nim"
                           [] OTHER -> "crystal")
          /\ \E i \in 2..(Len(words) - 1) : words[i] \in {"run", "--run"}

\* Rust with another file: one build command on the main file, then ./a.out.
C17_Witness ==
    /\ Resolved
    /\ input.language = "Rust"
    /\ MainFile = "main.rs"
    /\ Len(input.files) = 2
    /\ input.files[2].name = "util.rs"
    /\ instr.val.build_commands = <<"rustc -o a.out main.rs">>
    /\ instr.val.run_command = "./a.out"

\* The languages the resolver gives no build command, whatever the files are.
NoBuildLanguages ==
    {"Bash", "Clisp", "Clojure", "CoffeeScript", "Crystal", "Dart", "Elixir",
     "Groovy", "Guile", "Haskell", "JavaScript", "Julia", "Lua", "Nim", "Nix",
     "Perl", "Php", "Python", "Raku", "Ruby", "Zig"}

\* No build command; the run command ends with the main file, its only file
\* argument, and is the one the resolver gives without the other files.
RunsMainFileOnly ==
    LET words == Words(instr.val.run_command, "") IN
    /\ instr.val.build_commands = <<>>
    /\ Len(words) >= 2
    /\ words[Len(words)] = MainFile
    /\ FileArgs(instr.val.run_command) = <<MainFile>>
    /\ instr.val.run_command
          = run_instructions(input.language, [head |-> MainFile, tail |-> <<>>]).run_command

\* Python with main.py gives no build command and "python main.py".
PythonExample ==
    (Resolved /\ input.language = "Python" /\ MainFile = "main.py") =>
        (instr.val.build_commands = <<>> /\ instr.val.run_command = "python main.py")

\* C18 as stated: every language resolved with no build step has an empty
\* build_commands and a run command that is the interpreter's invocation
\* followed by the main file only, whatever the other files are.
C18_InterpretedRunMainOnly ==
    /\ (Resolved /\ input.language \in NoBuildLanguages) => RunsMainFileOnly
    /\ PythonExample

\* C18, amended: that holds of every language resolved with no build step but
\* Elixir, whose run command is "elixirc", the main file and then the other files
\* with the extension ex, in the request's order.
C18_RunMainOnlyButElixir ==
    /\ (Resolved /\ input.language \in NoBuildLanguages \ {"Elixir"}) => RunsMainFileOnly
    /\ PythonExample
    /\ (Resolved /\ input.language = "Elixir") =>
          /\ instr.val.build_commands = <<>>
          /\ Words(instr.val.run_command, "")[1] = "elixirc"
          /\ FileArgs(instr.val.run_command) = <<MainFile>> \o OthersWith("ex")

\* Python with main.py and two other files: "python main.py".
C18_Witness ==
    /\ Resolved
    /\ input.language = "Python"
    /\ MainFile = "main.py"
    /\ Len(input.files) = 3
    /\ instr.val.build_commands = <<>>
    /\ instr.val.run_command = "python main.py"

-----------------------------------------------------------------------------
(* Further claims about the program (Spec). *)

\* C21: in get_output an undecodable stream goes before the exit status, and
\* stdout before stderr: stdout not UTF-8 gives ReadStdout whatever the status and
\* stderr are, stdout UTF-8 and stderr not gives ReadStderr, never ExitFailure;
\* the RunResult of such a command has empty stdout and stderr and no exit code.
C21_DecodeFailureFirst ==
    (last.some /\ last.val.os.exec.ok) =>
        LET o == last.val.os.exec.val
            r == last.val.res
            undecodable == ~IsUtf8(o.stdout) \/ ~IsUtf8(o.stderr)
        IN  /\ ~IsUtf8(o.stdout) =>
                  (~r.ok /\ r.err.tag = "Output" /\ r.err.err.tag = "ReadStdout")
            /\ (IsUtf8(o.stdout) /\ ~IsUtf8(o.stderr)) =>
                  (~r.ok /\ r.err.tag = "Output" /\ r.err.err.tag = "ReadStderr")
            /\ (undecodable /\ last.val.role = "run") =>
                  /\ result.val.stdout = ""
                  /\ result.val.stderr = ""
                  /\ ~Contains(result.val.error, "code")
                  /\ Contains(result.val.error, "invalid utf-8")
            /\ (undecodable /\ last.val.role = "build" /\ out # <<>>) =>
                  /\ out[1].stdout = ""
                  /\ out[1].stderr = ""
                  /\ ~Contains(out[1].error, "code")

\* The run command exited 2 with neither stream decodable: ReadStdout, and a
\* RunResult without streams.
C21_Witness ==
    /\ last.some
    /\ last.val.role = "run"
    /\ last.val.os.exec.ok
    /\ last.val.os.exec.val.status.code = Some(2)
    /\ last.val.os.exec.val.stdout = <<111, 255>>
    /\ last.val.os.exec.val.stderr = <<195>>
    /\ last.val.res.err.err.tag = "ReadStdout"
    /\ result.val.stdout = ""

\* The names of the request's files, in the order of the request.
RequestNames ==
    IF input.form = "malformed" THEN <<>>
    ELSE [i \in 1..Len(input.files) |-> input.files[i].name]

\* C22: from_vec gives None exactly for the empty list, and for a non-empty v the
\* parts (v[0], v[1..]); so the main file run_instructions gets is the first file
\* of the request and the other files keep their order, and run_v1's language
\* dispatch on a request without files fails with NoFiles and no build or run
\* command is executed.
C22_FirstFileIsMain ==
    /\ from_vec(RequestNames).some <=> RequestNames # <<>>
    /\ RequestNames # <<>> =>
          parts(from_vec(RequestNames).val)
             = <<RequestNames[1], SubSeq(RequestNames, 2, Len(RequestNames))>>
    /\ (input.form = "V1" /\ instr.some) =>
          /\ RequestNames # <<>>
          /\ input.language = "C" =>
                FileArgs(instr.val.build_commands[1])
                   = <<RequestNames[1]>>
                     \o SelectSeq(SubSeq(RequestNames, 2, Len(RequestNames)),
                                  LAMBDA f : HasExtension(f, "c"))
          /\ input.language = "Erlang" =>
                /\ instr.val.run_command = "escript " \o RequestNames[1]
                /\ instr.val.build_commands
                      = [i \in 1..Len(instr.val.build_commands) |->
                            "erlc " \o SelectSeq(SubSeq(RequestNames, 2, Len(RequestNames)),
                                                 LAMBDA f : HasExtension(f, "erl"))[i]]
    /\ (input.form = "V1" /\ RequestNames = <<>>
        /\ (~input.command.some \/ input.command.val = "")) =>
          /\ instr = None
          /\ RunCalls = <<>>
          /\ result = None
          /\ error.some =>
                error.val.tag \in {"GetTimestamp", "Bootstrap", "NoFiles"}
          /\ pc = "exit" => (error.some /\ out = <<>>)
    /\ (error.some /\ error.val.tag = "NoFiles") =>
          (input.form = "V1" /\ RequestNames = <<>>)

\* A request with an empty command and no files ended with NoFiles, after the
\* bootstrap archive was unpacked and nothing else was executed.
C22_Witness ==
    /\ pc = "exit"
    /\ input.form = "V1"
    /\ input.files = <<>>
    /\ input.command = Some("")
    /\ error = Some([tag |-> "NoFiles"])
    /\ Len(calls) = 1
    /\ errOut = <<"Error, no files were given">>

\* A request with b.erl first and main.c second: b.erl is the main file.
FirstFileIsMainExample ==
    /\ input.form = "V1"
    /\ instr.some
    /\ input.language = "Erlang"
    /\ RequestNames = <<"b.erl", "main.c">>
    /\ instr.val.run_command = "escript b.erl"

=============================================================================
